---- MODULE Spec2Model ----
(***************************************************************************)
(* Model of the kagayaku screen-cast portal backend: the session registry  *)
(* (create_session / select_sources / start_cast / session_closed), the    *)
(* Mutter capture session wrapper (GnomeSession), the display and window   *)
(* state trackers, the restore-data codec and the source picker (ui_main   *)
(* and App::update).  Every handler is an async task; each `.await` that   *)
(* can suspend is a separate step, so that the interleavings the executor  *)
(* allows are the interleavings of the model.                              *)
(***************************************************************************)
EXTENDS Integers, Sequences, FiniteSets, TLC

\* ------------------------------------------------------------------ bounds
\* Number of protocol calls (one task per call) the environment issues.
MaxCalls == 3
\* Number of session tokens the protocol layer issues.
MaxSessions == 2
\* Number of change notifications each tracker stream can deliver.
MaxNotif == 2
\* Number of picker requests sent to ui_main.
MaxPopups == 2

Tasks == 1..MaxCalls
Tokens == 1..MaxSessions

\* ------------------------------------------------------- program constants
RESTORE_DATA_PROVIDER == "Kagayaku"
RESTORE_DATA_VERSION == 1

None == <<>>
Some(v) == <<v>>

\* SourceType as u32 (the value written into a restore entry).
SourceTypeBits(k) ==
    CASE k = "Monitor" -> 1
      [] k = "Window" -> 2
      [] k = "Virtual" -> 4

\* ------------------------------------------------------------ the trackers
MonDell == [connector |-> "HDMI-1", vendor |-> "DEL", product |-> "U2720Q", serial |-> "ABC123"]
MonVirt == [connector |-> "DP-1", vendor |-> "unknown", product |-> "unknown", serial |-> "unknown"]

\* A second unit of the Dell model that reports the same serial, and a
\* monitor that reports its vendor only.
MonTwin == [connector |-> "HDMI-2", vendor |-> "DEL", product |-> "U2720Q", serial |-> "ABC123"]
MonPart == [connector |-> "DP-2", vendor |-> "ACM", product |-> "unknown", serial |-> "unknown"]

\* match_string with the connector used as soon as one field is unknown.
match_string_any_unknown(m) ==
    IF m.vendor = "unknown" \/ m.product = "unknown" \/ m.serial = "unknown"
    THEN m.connector
    ELSE m.vendor \o ":" \o m.product \o ":" \o m.serial

match_string(m) ==
    IF m.vendor = "unknown" /\ m.product = "unknown" /\ m.serial = "unknown"
    THEN m.connector
    ELSE m.vendor \o ":" \o m.product \o ":" \o m.serial

connector(m) == m.connector

\* A snapshot of get_current_state / get_windows, as the maps refresh builds.
MonitorMap(ms) == [c \in {m.connector : m \in ms} |-> CHOOSE m \in ms : m.connector = c]

DisplaySnapshots ==
    {MonitorMap({MonDell, MonVirt}), MonitorMap({MonVirt}),
     MonitorMap({MonDell, MonTwin}), MonitorMap({MonDell, MonVirt, MonPart})}

WinInbox == [app_id |-> "org.foo", title |-> "Inbox"]
WinDrafts == [app_id |-> "org.foo", title |-> "Drafts"]

WindowSnapshots == {(42 :> WinInbox) @@ (99 :> WinDrafts), (99 :> WinDrafts)}

\* find_monitor: `values().find(..)` over a HashMap, whose iteration order is
\* unspecified: any monitor with that match string may be the one returned.
find_monitor(mons, ms) == {mons[c] : c \in {d \in DOMAIN mons : match_string(mons[d]) = ms}}

\* ------------------------------------------------------------ the sessions
CursorModes == {"Hidden", "Embedded", "Metadata"}
PersistModes == {"DoNot", "Application", "ExplicitlyRevoked"}

DefaultSession ==
    [multiple |-> FALSE, cursor_mode |-> "Hidden", source_type |-> {"Monitor"},
     persist_mode |-> "DoNot", gnome_session |-> None, streams |-> <<>>]

StreamMonitor(id, mon) ==
    [kind |-> "Monitor", id |-> id, connector |-> connector(mon), match_string |-> match_string(mon)]
StreamWindow(id, wid, app_id, title) ==
    [kind |-> "Window", id |-> id, window_id |-> wid, app_id |-> app_id, title |-> title]

Insert(map, k, v) == [x \in DOMAIN map \cup {k} |-> IF x = k THEN v ELSE map[x]]
KeepEntry(map, k) == map
Remove(map, k) == [x \in DOMAIN map \ {k} |-> map[x]]

\* --------------------------------------------------------- handler results
NoResult == [kind |-> "none"]
Ok(r) == [kind |-> "Ok", resp |-> r]
Err(e) == [kind |-> "Err", error |-> e]
Panic == [kind |-> "Panic"]

NoOptions ==
    [multiple |-> None, cursor_mode |-> None, persist_mode |-> None, types |-> None,
     restore_data |-> None]

IdleTask ==
    [pc |-> "idle", op |-> "none", tok |-> 0, options |-> NoOptions, gs |-> 0,
     source_type |-> {}, rx |-> "none", prompted |-> <<>>, idx |-> 0, restored |-> None,
     live |-> None, raced |-> FALSE, result |-> NoResult]

VARIABLES
    sessions,     \* ScreencastBackend.sessions: HandleToken -> ScreencastSession
    sessLock,     \* holder of the sessions mutex (0: free)
    dispLock,     \* holder of the display_state_tracker mutex
    winLock,      \* holder of the window_state_tracker mutex
    monitors,     \* DisplayStateTracker.monitors
    windows,      \* WindowStateTracker.windows
    dispQ,        \* MonitorsChanged signals queued in changed_stream
    winQ,         \* WindowsChanged signals queued in changed_stream
    sent,         \* change notifications the compositor has emitted so far
    busClosed,    \* the D-Bus connection has closed: every signal stream ends
    gnome,        \* the Mutter capture sessions opened so far, with their streams
    tasks,        \* per call: the handler's position and locals
    calls,        \* calls issued so far
    issued,       \* session tokens issued so far
    ui_rx,        \* PopupData sent to ui_main and not yet received
    ui_main,      \* ui_main's loop: "recv" or "stopped"
    apps,         \* per received PopupData: the picker App and its run state
    backend_tx    \* per received PopupData: the answers sent on its backend_tx

backendVars == <<sessions, sessLock, dispLock, winLock, monitors, windows, dispQ, winQ, sent,
                 busClosed, gnome, tasks, calls, issued>>
uiVars == <<ui_rx, ui_main, apps, backend_tx>>
vars == <<backendVars, uiVars>>

\* ui_main waits for its first PopupData; no picker has been opened.
UiIdle ==
    /\ ui_rx = <<>>
    /\ ui_main = "recv"
    /\ apps = <<>>
    /\ backend_tx = <<>>

envVars == <<monitors, windows, dispQ, winQ, sent, busClosed>>
lockVars == <<dispLock, winLock>>

Init ==
    /\ sessions = <<>>
    /\ sessLock = 0
    /\ dispLock = 0
    /\ winLock = 0
    /\ monitors = MonitorMap({MonDell, MonVirt})
    /\ windows = (42 :> WinInbox) @@ (99 :> WinDrafts)
    /\ dispQ = 0
    /\ winQ = 0
    /\ sent = 0
    /\ busClosed = FALSE
    /\ gnome = <<>>
    /\ tasks = [t \in Tasks |-> IdleTask]
    /\ calls = 0
    /\ issued = 0
    /\ UiIdle

\* Outcome of a D-Bus method call on the compositor.
CallOutcomes == IF busClosed THEN {"fail"} ELSE {"ok", "fail"}

\* The handler returns: its locals are dropped, the caller gets the result.
Finish(t, res) ==
    [tasks EXCEPT ![t].pc = "done", ![t].result = res, ![t].options = NoOptions,
                  ![t].source_type = {}, ![t].prompted = <<>>, ![t].idx = 0]

\* ----------------------------------------------------------- restore data
VariantStr(s) == [t |-> "str", s |-> s]
VariantPair(a, b) == [t |-> "pair", a |-> a, b |-> b]
Payload(r1, r2, entries) == [t |-> "payload", r1 |-> r1, r2 |-> r2, entries |-> entries]

\* What start_cast writes: (provider, version, (0, 0, [(id, kind, variant)])).
RestoreBlob(entries) == <<RESTORE_DATA_PROVIDER, RESTORE_DATA_VERSION, Payload(0, 0, entries)>>

\* The windows restore_streams' loop over the window cache can stop at: those
\* with that app_id and that title.
find_window_by_app(wins, app_id, title) == {w \in DOMAIN wins : wins[w].app_id = app_id}
find_window(wins, app_id, title) ==
    {w \in DOMAIN wins : wins[w].app_id = app_id /\ wins[w].title = title}

\* One entry of a restore array resolved against the caches: the set of
\* stream lists (empty or one stream) restore_streams may push for it.
RestoreEntry(e, mons, wins) ==
    IF Len(e) # 3 THEN {<<>>}
    ELSE LET id == e[1]
             source_type == e[2]
             data == e[3]
         IN  CASE source_type = SourceTypeBits("Monitor") ->
                    IF data.t # "str" THEN {<<>>}
                    ELSE LET found == find_monitor(mons, data.s)
                         IN  IF found = {} THEN {<<>>}
                             ELSE {<<StreamMonitor(id, m)>> : m \in found}
               [] source_type = SourceTypeBits("Window") ->
                    IF data.t # "pair" THEN {<<>>}
                    ELSE LET found == find_window(wins, data.a, data.b)
                         IN  IF found = {} THEN {<<>>}
                             ELSE {<<StreamWindow(id, w, data.a, data.b)>> : w \in found}
               [] source_type = SourceTypeBits("Virtual") -> {<<>>}
               [] OTHER -> {<<>>}

RECURSIVE RestoreResults(_, _, _)
RestoreResults(entries, mons, wins) ==
    IF entries = <<>> THEN {<<>>}
    ELSE {h \o r : h \in RestoreEntry(Head(entries), mons, wins),
                   r \in RestoreResults(Tail(entries), mons, wins)}

\* The guard without the version test.
RestoreAcceptedAnyVersion(rd) ==
    /\ rd # None
    /\ rd[1][1] = RESTORE_DATA_PROVIDER
    /\ rd[1][3].t = "payload"

\* The guard of select_sources' restore branch, after persist_mode was tested:
\* restore data present, provider and version equal, payload an (i64, i64, array).
RestoreAccepted(rd) ==
    /\ rd # None
    /\ rd[1][1] = RESTORE_DATA_PROVIDER
    /\ rd[1][2] = RESTORE_DATA_VERSION
    /\ rd[1][3].t = "payload"

\* ------------------------------------------------------- the environment
\* Options a client passes to select_sources.
SelectInputs ==
    { [NoOptions EXCEPT !.multiple = Some(TRUE), !.cursor_mode = Some("Embedded"),
                        !.persist_mode = Some("Application")],
      [NoOptions EXCEPT !.types = Some({"Window"})],
      [NoOptions EXCEPT !.persist_mode = Some("Application"),
                        !.restore_data = Some(RestoreBlob(<<
                            <<0, 1, VariantStr("DEL:U2720Q:ABC123")>> >>))],
      [NoOptions EXCEPT !.restore_data = Some(RestoreBlob(<<
                            <<0, 1, VariantStr("ACM:Gone:0001")>> >>))] }

\* Answers of the picker: the streams the user chose.  start_cast takes the
\* list as it comes; it need not agree with the source types it sent.
PickerAnswers ==
    { <<>>,
      <<StreamMonitor(0, MonDell)>>,
      <<StreamMonitor(0, MonDell), StreamMonitor(1, MonVirt)>>,
      <<StreamWindow(0, 99, "org.foo", "Drafts")>>,
      <<StreamMonitor(0, MonDell), StreamWindow(1, 99, "org.foo", "Drafts")>> }

\* The protocol layer dispatches a call: a new task runs its handler.
CallCreate(t) ==
    /\ tasks[t].pc = "idle" /\ t = calls + 1
    /\ issued < MaxSessions
    /\ tasks' = [tasks EXCEPT ![t].pc = "create_lock", ![t].op = "create",
                              ![t].tok = issued + 1]
    /\ issued' = issued + 1
    /\ calls' = calls + 1
    /\ UNCHANGED uiVars
    /\ UNCHANGED <<sessions, sessLock, lockVars, envVars, gnome >>

CallSelect(t) ==
    /\ tasks[t].pc = "idle" /\ t = calls + 1
    /\ \E tok \in Tokens, o \in SelectInputs :
         tasks' = [tasks EXCEPT ![t].pc = "sel_lock", ![t].op = "select",
                                ![t].tok = tok, ![t].options = o]
    /\ calls' = calls + 1
    /\ UNCHANGED uiVars
    /\ UNCHANGED <<sessions, sessLock, lockVars, envVars, gnome , issued>>

CallStart(t) ==
    /\ tasks[t].pc = "idle" /\ t = calls + 1
    /\ \E tok \in Tokens :
         tasks' = [tasks EXCEPT ![t].pc = "start_lock", ![t].op = "start", ![t].tok = tok]
    /\ calls' = calls + 1
    /\ UNCHANGED uiVars
    /\ UNCHANGED <<sessions, sessLock, lockVars, envVars, gnome , issued>>

CallClose(t) ==
    /\ tasks[t].pc = "idle" /\ t = calls + 1
    /\ \E tok \in Tokens :
         tasks' = [tasks EXCEPT ![t].pc = "close_lock", ![t].op = "close", ![t].tok = tok]
    /\ calls' = calls + 1
    /\ UNCHANGED uiVars
    /\ UNCHANGED <<sessions, sessLock, lockVars, envVars, gnome , issued>>

\* The tasks suspended in `next().await` on a signal stream.
Polling ==
    {t \in Tasks : tasks[t].pc \in {"sel_display_first", "sel_display_drain",
                                    "sel_window_first", "sel_window_drain", "start_nodes"}}

\* The compositor emits MonitorsChanged / WindowsChanged.  The stream buffers
\* the signal until it is polled, and it is polled only inside restore_streams,
\* so a signal emitted earlier is the same as one emitted while a task is
\* there (it holds both tracker locks): only the latter is generated.
MonitorsChanged ==
    /\ ~busClosed /\ sent < MaxNotif
    /\ winLock # 0
    /\ dispQ' = dispQ + 1
    /\ sent' = sent + 1
    /\ UNCHANGED uiVars
    /\ UNCHANGED <<sessions, sessLock, lockVars, monitors, windows, winQ, busClosed, gnome,
                   tasks, calls, issued>>

WindowsChanged ==
    /\ ~busClosed /\ sent < MaxNotif
    /\ winLock # 0
    /\ winQ' = winQ + 1
    /\ sent' = sent + 1
    /\ UNCHANGED uiVars
    /\ UNCHANGED <<sessions, sessLock, lockVars, monitors, windows, dispQ, busClosed, gnome,
                   tasks, calls, issued>>

\* The connection to the bus closes: signal streams end once drained and
\* method calls fail.  A method call may fail at any time anyway, so the
\* closure is generated when a task polls a signal stream, which is where it
\* makes a difference.
BusClose ==
    /\ ~busClosed
    /\ Polling # {}
    /\ busClosed' = TRUE
    /\ UNCHANGED uiVars
    /\ UNCHANGED <<sessions, sessLock, lockVars, monitors, windows, dispQ, winQ, sent, gnome,
                   tasks, calls, issued>>

\* `changed_stream.next().await`: a queued signal, the end of the stream, or
\* nothing yet (the task stays suspended).
NextSignal(q) == IF q > 0 THEN "some" ELSE IF busClosed THEN "none" ELSE "pending"

\* ---------------------------------------------------------- create_session
CreateSession(t) ==
    /\ tasks[t].pc = "create_lock" /\ sessLock = 0
    /\ sessions' = Insert(sessions, tasks[t].tok, DefaultSession)
    /\ tasks' = Finish(t, Ok("CreateSessionResponse"))
    /\ UNCHANGED uiVars
    /\ UNCHANGED <<sessLock, lockVars, envVars, gnome , calls, issued>>

\* ---------------------------------------------------------- session_closed
\* Lock, remove the session; with a live adapter the task suspends on stop()
\* while it still holds the lock.  (raced: history, set on the start calls of
\* this token that are waiting for the picker's answer at that moment.)
SessionClosed(t) ==
    /\ tasks[t].pc = "close_lock" /\ sessLock = 0
    /\ LET tok == tasks[t].tok
           known == tok \in DOMAIN sessions
           live == known /\ sessions[tok].gnome_session # None
           waiting == {u \in Tasks : /\ known
                                     /\ tasks[u].pc = "start_recv"
                                     /\ tasks[u].tok = tok}
           marked == [u \in Tasks |-> IF u \in waiting
                                      THEN [tasks[u] EXCEPT !.raced = TRUE]
                                      ELSE tasks[u]]
       IN  /\ sessions' = IF known THEN Remove(sessions, tok) ELSE sessions
           /\ IF live
              THEN /\ sessLock' = t
                   /\ tasks' = [marked EXCEPT ![t].pc = "close_stop",
                                              ![t].gs = sessions[tok].gnome_session[1]]
              ELSE /\ sessLock' = 0
                   /\ tasks' = [marked EXCEPT ![t].pc = "done", ![t].result = Ok("Unit")]
    /\ UNCHANGED uiVars
    /\ UNCHANGED <<lockVars, envVars, gnome, calls, issued>>

\* GnomeSession::stop returns.
SessionClosedStop(t) ==
    /\ tasks[t].pc = "close_stop"
    /\ \E r \in CallOutcomes :
         IF r = "ok"
         THEN /\ gnome' = [gnome EXCEPT ![tasks[t].gs].state = "stopped"]
              /\ tasks' = Finish(t, Ok("Unit"))
         ELSE /\ gnome' = gnome
              /\ tasks' = Finish(t, Err("ZbusError"))
    /\ sessLock' = 0
    /\ UNCHANGED uiVars
    /\ UNCHANGED <<sessions, lockVars, envVars , calls, issued>>

\* ---------------------------------------------------------- select_sources
\* The result of select_sources and start_cast when the token has no session.
UnknownIgnored == Ok("Unit")
UnknownSession == Err("InvalidArgument")

\* The session after a partial update that also resets what the options omit.
ReplaceOptions(session, o) ==
    [session EXCEPT
       !.multiple = IF o.multiple # None THEN o.multiple[1] ELSE FALSE,
       !.cursor_mode = IF o.cursor_mode # None THEN o.cursor_mode[1] ELSE "Hidden",
       !.persist_mode = IF o.persist_mode # None THEN o.persist_mode[1] ELSE "DoNot",
       !.source_type = IF o.types # None /\ o.types[1] # {} THEN o.types[1] ELSE {"Monitor"}]

\* The partial update of the session's fields from the options.
ApplyOptions(session, o) ==
    [session EXCEPT
       !.multiple = IF o.multiple # None THEN o.multiple[1] ELSE @,
       !.cursor_mode = IF o.cursor_mode # None THEN o.cursor_mode[1] ELSE @,
       !.persist_mode = IF o.persist_mode # None THEN o.persist_mode[1] ELSE @,
       !.source_type = IF o.types # None
                       THEN (IF o.types[1] = {} THEN {"Monitor"} ELSE o.types[1])
                       ELSE @]

\* Lock, look the session up, update its fields; with persistence requested
\* and accepted restore data go on to restore_streams, the lock still held.
SelectSources(t) ==
    /\ tasks[t].pc = "sel_lock" /\ sessLock = 0
    /\ LET tok == tasks[t].tok
           o == tasks[t].options
       IN  IF tok \notin DOMAIN sessions
           THEN /\ tasks' = Finish(t, UnknownSession)
                /\ UNCHANGED <<sessions, sessLock>>
           ELSE LET session == ApplyOptions(sessions[tok], o)
                IN  /\ sessions' = [sessions EXCEPT ![tok] = session]
                    /\ IF session.persist_mode # "DoNot" /\ RestoreAccepted(o.restore_data)
                       THEN /\ sessLock' = t
                            /\ tasks' = [tasks EXCEPT ![t].pc = "sel_display_lock"]
                       ELSE /\ sessLock' = 0
                            /\ tasks' = Finish(t, Ok("SelectSourcesResponse"))
    /\ UNCHANGED uiVars
    /\ UNCHANGED <<lockVars, envVars, gnome , calls, issued>>

\* restore_streams taking the window tracker's lock before the display's.
RestoreLockWindowFirst(t) ==
    /\ tasks[t].pc = "sel_display_lock" /\ winLock = 0
    /\ winLock' = t
    /\ tasks' = [tasks EXCEPT ![t].pc = "sel_window_lock"]
    /\ UNCHANGED uiVars
    /\ UNCHANGED <<sessions, sessLock, dispLock, envVars, gnome , calls, issued>>

\* restore_streams: display_state_tracker.lock().await
RestoreLockDisplay(t) ==
    /\ tasks[t].pc = "sel_display_lock" /\ dispLock = 0
    /\ dispLock' = t
    /\ tasks' = [tasks EXCEPT ![t].pc = "sel_window_lock"]
    /\ UNCHANGED uiVars
    /\ UNCHANGED <<sessions, sessLock, winLock, envVars, gnome , calls, issued>>

\* restore_streams: window_state_tracker.lock().await
RestoreLockWindow(t) ==
    /\ tasks[t].pc = "sel_window_lock" /\ winLock = 0
    /\ winLock' = t
    /\ tasks' = [tasks EXCEPT ![t].pc = "sel_display_first"]
    /\ UNCHANGED uiVars
    /\ UNCHANGED <<sessions, sessLock, dispLock, envVars, gnome , calls, issued>>

\* DisplayStateTracker::has_changed: false when the first next() is None;
\* after a first signal, next() is awaited again until it is None, then true.
DisplayHasChanged(t) ==
    /\ tasks[t].pc \in {"sel_display_first", "sel_display_drain"}
    /\ NextSignal(dispQ) # "pending"
    /\ IF NextSignal(dispQ) = "some"
       THEN /\ dispQ' = dispQ - 1
            /\ tasks' = [tasks EXCEPT ![t].pc = "sel_display_drain"]
       ELSE /\ dispQ' = dispQ
            /\ tasks' = [tasks EXCEPT ![t].pc =
                           IF tasks[t].pc = "sel_display_first"
                           THEN "sel_window_first" ELSE "sel_display_refresh"]
    /\ UNCHANGED uiVars
    /\ UNCHANGED <<sessions, sessLock, lockVars, monitors, windows, winQ, sent, busClosed,
                   gnome , calls, issued>>

\* DisplayStateTracker::refresh: the cache is replaced by the new snapshot, or
\* left as it was when the query (or the parsing of a property) fails.
DisplayRefresh(t) ==
    /\ tasks[t].pc = "sel_display_refresh"
    /\ \E r \in CallOutcomes :
         IF r = "ok" THEN monitors' \in DisplaySnapshots ELSE monitors' = monitors
    /\ tasks' = [tasks EXCEPT ![t].pc = "sel_window_first"]
    /\ UNCHANGED uiVars
    /\ UNCHANGED <<sessions, sessLock, lockVars, windows, dispQ, winQ, sent, busClosed,
                   gnome , calls, issued>>

\* WindowStateTracker::has_changed
WindowHasChanged(t) ==
    /\ tasks[t].pc \in {"sel_window_first", "sel_window_drain"}
    /\ NextSignal(winQ) # "pending"
    /\ IF NextSignal(winQ) = "some"
       THEN /\ winQ' = winQ - 1
            /\ tasks' = [tasks EXCEPT ![t].pc = "sel_window_drain"]
       ELSE /\ winQ' = winQ
            /\ tasks' = [tasks EXCEPT ![t].pc =
                           IF tasks[t].pc = "sel_window_first"
                           THEN "sel_resolve" ELSE "sel_window_refresh"]
    /\ UNCHANGED uiVars
    /\ UNCHANGED <<sessions, sessLock, lockVars, monitors, windows, dispQ, sent, busClosed,
                   gnome , calls, issued>>

\* Outcome of WindowStateTracker::refresh: get_windows fails, or it answers
\* and an entry lacks a string "app-id" or "title" (`unwrap()`), or it
\* answers and every entry is read.
WindowRefreshOutcomes == IF busClosed THEN {"fail"} ELSE {"ok", "fail", "malformed"}

\* WindowStateTracker::refresh called by restore_streams: an error is logged;
\* a panic unwinds select_sources, whose three guards are dropped.
WindowRefresh(t) ==
    /\ tasks[t].pc = "sel_window_refresh"
    /\ \E r \in WindowRefreshOutcomes :
         /\ IF r = "ok" THEN windows' \in WindowSnapshots ELSE windows' = windows
         /\ IF r = "malformed"
            THEN /\ tasks' = Finish(t, Panic)
                 /\ sessLock' = 0 /\ dispLock' = 0 /\ winLock' = 0
            ELSE /\ tasks' = [tasks EXCEPT ![t].pc = "sel_resolve"]
                 /\ UNCHANGED <<sessLock, lockVars>>
    /\ UNCHANGED uiVars
    /\ UNCHANGED <<sessions, monitors, dispQ, winQ, sent, busClosed, gnome , calls, issued>>

\* The session after restore_streams returned s: `if !s.is_empty()`.
StoreAlways(session, s) == [session EXCEPT !.streams = s]
StoreRestored(session, s) == IF s # <<>> THEN [session EXCEPT !.streams = s] ELSE session

\* restore_streams' loop over the entries, then select_sources stores a
\* non-empty result and returns; the three guards are dropped.  (restored:
\* history, the list restore_streams returned.)
RestoreStreams(t) ==
    /\ tasks[t].pc = "sel_resolve"
    /\ LET tok == tasks[t].tok
           a == tasks[t].options.restore_data[1][3].entries
       IN  \E s \in RestoreResults(a, monitors, windows) :
             /\ sessions' = [sessions EXCEPT ![tok] = StoreRestored(@, s)]
             /\ tasks' = [Finish(t, Ok("SelectSourcesResponse")) EXCEPT ![t].restored = Some(s)]
    /\ sessLock' = 0
    /\ dispLock' = 0
    /\ winLock' = 0
    /\ UNCHANGED uiVars
    /\ UNCHANGED <<envVars, gnome , calls, issued>>

\* -------------------------------------------------------------- start_cast
\* Lock and look the session up.  (live: history, the adapter the session
\* had when the call found it.)
StartCast(t) ==
    /\ tasks[t].pc = "start_lock" /\ sessLock = 0
    /\ LET tok == tasks[t].tok
       IN  IF tok \notin DOMAIN sessions
           THEN /\ tasks' = Finish(t, UnknownSession)
                /\ sessLock' = 0
           ELSE /\ tasks' = [tasks EXCEPT ![t].pc = "start_create",
                                          ![t].live = sessions[tok].gnome_session]
                /\ sessLock' = t
    /\ UNCHANGED uiVars
    /\ UNCHANGED <<sessions, lockVars, envVars, gnome , calls, issued>>

\* The holder of the sessions lock once start_cast has read prompt_session
\* and source_type: `drop(sessions)`, before the picker is asked.
StartKeepLock(t) == t
StartDropLock(t) == 0

\* prompt_session: the picker is asked when the session has no pre-resolved
\* stream.
PromptInverted(session) == session.streams # <<>>
PromptSession(session) == session.streams = <<>>

\* Mutter's create_session and the session proxy (GnomeSession::new) return;
\* prompt_session and source_type are read, the lock is dropped, and with no
\* pre-resolved stream the request is sent to the picker.
StartCreateSession(t) ==
    /\ tasks[t].pc = "start_create"
    /\ LET tok == tasks[t].tok
           g == Len(gnome) + 1
           prompt_session == PromptSession(sessions[tok])
       IN  \E r \in CallOutcomes, proxy \in CallOutcomes, send \in {"ok", "closed"} :
             IF r = "fail"
             THEN /\ gnome' = gnome
                  /\ tasks' = Finish(t, Err("ZbusError"))
                  /\ sessLock' = 0
             ELSE /\ gnome' = Append(gnome, [token |-> tok, task |-> t, state |-> "created",
                                             streams |-> <<>>])
                  /\ IF proxy = "fail"
                     THEN /\ tasks' = Finish(t, Err("ZbusError"))
                          /\ sessLock' = 0
                     ELSE /\ sessLock' = StartDropLock(t)
                          /\ tasks' =
                               IF prompt_session /\ send = "closed"
                               THEN [Finish(t, Err("Failed")) EXCEPT ![t].gs = g,
                                                                     ![t].rx = "closed"]
                               ELSE [tasks EXCEPT
                                       ![t].pc = IF prompt_session THEN "start_recv"
                                                 ELSE "start_relock",
                                       ![t].rx = IF prompt_session THEN "waiting" ELSE "none",
                                       ![t].gs = g,
                                       ![t].source_type = sessions[tok].source_type]
    /\ UNCHANGED uiVars
    /\ UNCHANGED <<sessions, lockVars, envVars, calls, issued>>

\* rx.recv() returned Err: the picker went away without an answer.
RecvErrorAsEmpty(t) == [tasks EXCEPT ![t].pc = "start_relock", ![t].rx = "closed"]
RecvError(t) == [Finish(t, Err("Failed")) EXCEPT ![t].rx = "closed"]

\* rx.recv().await returns: the streams the user shared, or an error when
\* every sender was dropped without an answer.
StartRecv(t) ==
    /\ tasks[t].pc = "start_recv"
    /\ \/ \E a \in PickerAnswers :
            /\ tasks' = [tasks EXCEPT ![t].pc = "start_relock", ![t].rx = "answered",
                                      ![t].prompted = a]
       \/ tasks' = RecvError(t)
    /\ UNCHANGED uiVars
    /\ UNCHANGED <<sessions, sessLock, lockVars, envVars, gnome, calls, issued>>

\* session.streams.iter().chain(prompted_streams.iter())
Chained(t) == sessions[tasks[t].tok].streams \o tasks[t].prompted

\* The source types start_cast filters the chained streams by: the session's,
\* read after the lock was taken again.
StaleFilterTypes(t) == tasks[t].source_type
FilterTypes(t) == sessions[tasks[t].tok].source_type

\* The next stream at or after position i that passes the source-type test
\* (Len + 1 when there is none): the stream whose record call is awaited.
NextAny(streams, types, i) == i
RECURSIVE NextWanted(_, _, _)
NextWanted(streams, types, i) ==
    IF i > Len(streams) \/ streams[i].kind \in types THEN i
    ELSE NextWanted(streams, types, i + 1)

\* Lock again; `sessions.get_mut(&session_token).unwrap()`.
StartRelock(t) ==
    /\ tasks[t].pc = "start_relock" /\ sessLock = 0
    /\ LET tok == tasks[t].tok
       IN  IF tok \notin DOMAIN sessions
           THEN /\ tasks' = Finish(t, Panic)
                /\ sessLock' = 0
           ELSE LET first == NextWanted(Chained(t), FilterTypes(t), 1)
                IN  /\ tasks' = [tasks EXCEPT ![t].idx = first,
                                   ![t].pc = IF first > Len(Chained(t))
                                             THEN "start_start" ELSE "start_record"]
                    /\ sessLock' = t
    /\ UNCHANGED uiVars
    /\ UNCHANGED <<sessions, lockVars, envVars, gnome , calls, issued>>

\* A GnomeStream whose PipeWireStreamAdded subscription is not made yet.
NewStreamUnsubscribed(stream, cursor_mode) ==
    [id |-> stream.id, source_type |-> stream.kind, pipewire_node_id |-> None,
     signal |-> "none", cursor_mode |-> cursor_mode,
     restore_data |-> IF stream.kind = "Monitor"
                      THEN VariantStr(stream.match_string)
                      ELSE VariantPair(stream.app_id, stream.title)]

\* The GnomeStream pushed by new_stream for a chained stream: the proxy is
\* built and receive_pipe_wire_stream_added has subscribed.
NewStream(stream, cursor_mode) ==
    [id |-> stream.id, source_type |-> stream.kind, pipewire_node_id |-> None,
     signal |-> "subscribed", cursor_mode |-> cursor_mode,
     restore_data |-> IF stream.kind = "Monitor"
                      THEN VariantStr(stream.match_string)
                      ELSE VariantPair(stream.app_id, stream.title)]

\* `.await?` on a failed record_monitor / record_window / start call.
AdapterCallIgnored(t) == [tasks EXCEPT ![t].pc = "start_respond"]
AdapterCallFailed(t) == Finish(t, Err("ZbusError"))

\* record_monitor / record_window returns for the stream at idx.
StartRecord(t) ==
    /\ tasks[t].pc = "start_record"
    /\ LET tok == tasks[t].tok
           g == tasks[t].gs
           stream == Chained(t)[tasks[t].idx]
           next == NextWanted(Chained(t), FilterTypes(t), tasks[t].idx + 1)
       IN  \E r \in CallOutcomes :
             IF r = "ok"
             THEN /\ gnome' = [gnome EXCEPT ![g].streams =
                                 Append(@, NewStream(stream, sessions[tok].cursor_mode))]
                  /\ tasks' = [tasks EXCEPT ![t].idx = next,
                                 ![t].pc = IF next > Len(Chained(t))
                                           THEN "start_start" ELSE "start_record"]
                  /\ sessLock' = sessLock
             ELSE /\ gnome' = gnome
                  /\ tasks' = AdapterCallFailed(t)
                  /\ sessLock' = 0
    /\ UNCHANGED uiVars
    /\ UNCHANGED <<sessions, lockVars, envVars , calls, issued>>

\* GnomeSession::start: proxy.start() returns.
StartStart(t) ==
    /\ tasks[t].pc = "start_start"
    /\ LET g == tasks[t].gs
       IN  \E r \in CallOutcomes :
             IF r = "ok"
             THEN /\ gnome' = [gnome EXCEPT ![g].state = "started"]
                  /\ tasks' = [tasks EXCEPT ![t].idx = 1,
                                 ![t].pc = IF gnome[g].streams = <<>>
                                           THEN "start_respond" ELSE "start_nodes"]
                  /\ sessLock' = sessLock
             ELSE /\ gnome' = gnome
                  /\ tasks' = AdapterCallFailed(t)
                  /\ sessLock' = 0
    /\ UNCHANGED uiVars
    /\ UNCHANGED <<sessions, lockVars, envVars , calls, issued>>

\* The node id Mutter announces for stream i of session g.
NodeId(g, i) == 10 * g + i

\* Mutter emits PipeWireStreamAdded for a stream of a started session.
PipeWireStreamAdded(g, i) ==
    /\ ~busClosed
    /\ gnome[g].state = "started"
    /\ gnome[g].streams[i].signal = "subscribed"
    /\ gnome' = [gnome EXCEPT ![g].streams[i].signal = "queued"]
    /\ UNCHANGED uiVars
    /\ UNCHANGED <<sessions, sessLock, lockVars, envVars , tasks, calls, issued>>

\* GnomeSession::start: `stream.added_stream.next().await` for the stream at
\* idx returns: the signal (the node id is stored) or the end of the stream.
StartNodes(t) ==
    /\ tasks[t].pc = "start_nodes"
    /\ LET g == tasks[t].gs
           i == tasks[t].idx
           signal == gnome[g].streams[i].signal
       IN  /\ signal = "queued" \/ busClosed
           /\ gnome' = IF signal = "queued"
                       THEN [gnome EXCEPT ![g].streams[i].signal = "taken",
                                          ![g].streams[i].pipewire_node_id = Some(NodeId(g, i))]
                       ELSE gnome
           /\ tasks' = [tasks EXCEPT ![t].idx = i + 1,
                          ![t].pc = IF i + 1 > Len(gnome[g].streams)
                                    THEN "start_respond" ELSE "start_nodes"]
    /\ UNCHANGED uiVars
    /\ UNCHANGED <<sessions, sessLock, lockVars, envVars , calls, issued>>

\* The streams of the response: those that have a node id.
RECURSIVE ResponseStreams(_)
ResponseStreams(streams) ==
    IF streams = <<>> THEN <<>>
    ELSE LET stream == Head(streams)
         IN  (IF stream.pipewire_node_id # None
              THEN <<[node_id |-> stream.pipewire_node_id[1], id |-> stream.id,
                      source_type |-> stream.source_type]>>
              ELSE <<>>) \o ResponseStreams(Tail(streams))

\* The entries of the restore array: one per stream that has a node id.
RECURSIVE RequestedEntries(_)
RequestedEntries(streams) ==
    IF streams = <<>> THEN <<>>
    ELSE LET stream == Head(streams)
         IN  <<<<stream.id, SourceTypeBits(stream.source_type), stream.restore_data>>>>
               \o RequestedEntries(Tail(streams))

RECURSIVE RestoreEntries(_)
RestoreEntries(streams) ==
    IF streams = <<>> THEN <<>>
    ELSE LET stream == Head(streams)
         IN  (IF stream.pipewire_node_id # None
              THEN <<<<stream.id, SourceTypeBits(stream.source_type), stream.restore_data>>>>
              ELSE <<>>) \o RestoreEntries(Tail(streams))

StartCastResponse(session, streams) ==
    [streams |-> ResponseStreams(streams),
     restore_data |-> IF session.persist_mode # "DoNot"
                      THEN Some(RestoreBlob(RestoreEntries(streams)))
                      ELSE None]

\* The response is built, the adapter is stored in the session, the lock dropped.
StartRespond(t) ==
    /\ tasks[t].pc = "start_respond"
    /\ LET tok == tasks[t].tok
           g == tasks[t].gs
       IN  /\ tasks' = Finish(t, Ok(StartCastResponse(sessions[tok], gnome[g].streams)))
           /\ sessions' = [sessions EXCEPT ![tok].gnome_session = Some(g)]
    /\ sessLock' = 0
    /\ UNCHANGED uiVars
    /\ UNCHANGED <<lockVars, envVars, gnome , calls, issued>>

\* ------------------------------------------------------------ the system
TaskStep(t) ==
    \/ CreateSession(t)
    \/ SelectSources(t)
    \/ RestoreLockDisplay(t)
    \/ RestoreLockWindow(t)
    \/ DisplayHasChanged(t)
    \/ DisplayRefresh(t)
    \/ WindowHasChanged(t)
    \/ WindowRefresh(t)
    \/ RestoreStreams(t)
    \/ StartCast(t)
    \/ StartCreateSession(t)
    \/ StartRecv(t)
    \/ StartRelock(t)
    \/ StartRecord(t)
    \/ StartStart(t)
    \/ StartNodes(t)
    \/ StartRespond(t)
    \/ SessionClosed(t)
    \/ SessionClosedStop(t)

Next ==
    \/ \E t \in Tasks : CallCreate(t) \/ CallSelect(t) \/ CallStart(t) \/ CallClose(t)
    \/ \E t \in Tasks : TaskStep(t)
    \/ \E g \in DOMAIN gnome : \E i \in DOMAIN gnome[g].streams : PipeWireStreamAdded(g, i)
    \/ MonitorsChanged
    \/ WindowsChanged
    \/ BusClose

Spec == Init /\ [][Next]_vars

\* ------------------------------------------- construction and restoration
\* The backend from ScreencastBackend::new on: the two trackers are built
\* (each runs its first refresh on an empty cache), then sessions are created
\* and configured with restore data.  Task 1 is the constructor.
BootInit ==
    /\ sessions = <<>>
    /\ sessLock = 0
    /\ dispLock = 0
    /\ winLock = 0
    /\ monitors = <<>>
    /\ windows = <<>>
    /\ dispQ = 0
    /\ winQ = 0
    /\ sent = 0
    /\ busClosed = FALSE
    /\ gnome = <<>>
    /\ tasks = [t \in Tasks |-> IF t = 1 THEN [IdleTask EXCEPT !.pc = "new_display", !.op = "new"]
                                ELSE IdleTask]
    /\ calls = 1
    /\ issued = 0
    /\ UiIdle

\* DisplayStateTracker::new: the proxy, the signal stream, the first refresh.
NewDisplayTracker(t) ==
    /\ tasks[t].pc = "new_display"
    /\ \E r \in CallOutcomes :
         IF r = "ok"
         THEN /\ monitors' \in DisplaySnapshots
              /\ tasks' = [tasks EXCEPT ![t].pc = "new_window"]
         ELSE /\ monitors' = monitors
              /\ tasks' = Finish(t, Err("AnyError"))
    /\ UNCHANGED uiVars
    /\ UNCHANGED <<sessions, sessLock, lockVars, windows, dispQ, winQ, sent, busClosed,
                   gnome, calls, issued>>

\* WindowStateTracker::new, then the rest of ScreencastBackend::new.
NewWindowTracker(t) ==
    /\ tasks[t].pc = "new_window"
    /\ \E r \in WindowRefreshOutcomes :
         /\ IF r = "ok" THEN windows' \in WindowSnapshots ELSE windows' = windows
         /\ tasks' = Finish(t, CASE r = "ok" -> Ok("ScreencastBackend")
                                  [] r = "fail" -> Err("AnyError")
                                  [] r = "malformed" -> Panic)
    /\ UNCHANGED uiVars
    /\ UNCHANGED <<sessions, sessLock, lockVars, monitors, dispQ, winQ, sent, busClosed,
                   gnome, calls, issued>>

\* The backend is built and registered: it serves calls.
Constructed == tasks[1].op = "new" /\ tasks[1].result.kind = "Ok"

\* Restore data a client passes back with persistence requested.
RestoreInputs ==
    LET dell == <<4, 1, VariantStr("DEL:U2720Q:ABC123")>>
        With(rd) == [NoOptions EXCEPT !.persist_mode = Some("Application"),
                                      !.restore_data = Some(rd)]
    IN  { With(RestoreBlob(<<dell>>)),
          With(<<"Other", RESTORE_DATA_VERSION, Payload(0, 0, <<dell>>)>>),
          With(<<RESTORE_DATA_PROVIDER, 2, Payload(0, 0, <<dell>>)>>),
          With(<<RESTORE_DATA_PROVIDER, RESTORE_DATA_VERSION, VariantStr("junk")>>),
          With(RestoreBlob(<< <<7>>,
                              <<1, 4, VariantStr("DP-1")>>,
                              <<2, 8, VariantStr("DP-1")>>,
                              <<3, 1, VariantPair("org.foo", "Drafts")>>,
                              dell,
                              <<5, 2, VariantPair("org.foo", "Drafts")>> >>)),
          With(RestoreBlob(<< <<0, 2, VariantPair("org.foo", "Inbox")>> >>)),
          With(RestoreBlob(<< <<0, 2, VariantPair("org.foo", "Sent")>> >>)),
          With(RestoreBlob(<< <<0, 1, VariantStr("DP-1")>> >>)),
          With(RestoreBlob(<< <<0, 1, VariantStr("ACM:unknown:unknown")>> >>)) }

BootCreate(t) == Constructed /\ CallCreate(t)

BootSelect(t) ==
    /\ Constructed
    /\ tasks[t].pc = "idle" /\ t = calls + 1
    /\ \E tok \in Tokens, o \in RestoreInputs :
         tasks' = [tasks EXCEPT ![t].pc = "sel_lock", ![t].op = "select",
                                ![t].tok = tok, ![t].options = o]
    /\ calls' = calls + 1
    /\ UNCHANGED uiVars
    /\ UNCHANGED <<sessions, sessLock, lockVars, envVars, gnome , issued>>

BootNext ==
    \/ \E t \in Tasks : NewDisplayTracker(t) \/ NewWindowTracker(t)
    \/ \E t \in Tasks : BootCreate(t) \/ BootSelect(t)
    \/ \E t \in Tasks :
         \/ CreateSession(t)
         \/ SelectSources(t)
         \/ RestoreLockDisplay(t)
         \/ RestoreLockWindow(t)
         \/ DisplayHasChanged(t)
         \/ DisplayRefresh(t)
         \/ WindowHasChanged(t)
         \/ WindowRefresh(t)
         \/ RestoreStreams(t)
    \/ MonitorsChanged
    \/ WindowsChanged
    \/ BusClose

BootSpec == BootInit /\ [][BootNext]_vars

\* ------------------------------------------------------------- properties
LockWaits == {"create_lock", "sel_lock", "start_lock", "start_relock", "close_lock"}
CompositorWaits == {"start_create", "start_record", "start_start", "start_nodes", "close_stop"}
AfterHandOff == {"start_record", "start_start", "start_nodes", "start_respond"}

\* C1: a start whose session was removed by a close while it waited for the
\* picker's answer returns an error to its caller (no panic, no success).
C1_RacedStartReturnsError ==
    \A t \in Tasks :
      (tasks[t].op = "start" /\ tasks[t].raced /\ tasks[t].pc = "done")
        => tasks[t].result.kind = "Err"

\* C2: once the start call that opened a compositor session has returned, that
\* session is the live adapter of a registered session or has been stopped.
C2_NoLeakedCompositorSession ==
    \A g \in DOMAIN gnome :
      tasks[gnome[g].task].pc = "done"
        => \/ gnome[g].state = "stopped"
           \/ \E tok \in DOMAIN sessions : sessions[tok].gnome_session = Some(g)

\* C3: a start call waiting for the picker's answer does not hold the
\* session-table lock.
C3_PickerWaitWithoutLock ==
    \A t \in Tasks : tasks[t].pc = "start_recv" => sessLock # t

\* C3 witness: while a start waits for the picker, another call holds the lock
\* (it acquired it during the wait: the start held it until the hand-off).
C3_Witness ==
    \E t, u \in Tasks :
      /\ tasks[t].pc = "start_recv"
      /\ u # t /\ sessLock = u
      /\ tasks[u].pc \notin LockWaits \cup {"idle", "done"}

\* C4: while a start or close of one session is suspended on a compositor
\* call, a call for a different session that needs the session table can run.
C4_OtherSessionNotBlocked ==
    \A t, u \in Tasks :
      (/\ tasks[t].pc \in CompositorWaits
       /\ tasks[u].pc \in LockWaits
       /\ tasks[u].tok # tasks[t].tok)
        => ENABLED TaskStep(u)

\* The streams registered so far are the chained streams (the session's list
\* as stored now, then the prompted ones) that pass the session's source types
\* as stored now, each registered with the session's cursor mode as stored now.
RegisteredFresh(t) ==
    LET session == sessions[tasks[t].tok]
        registered == gnome[tasks[t].gs].streams
        chained == session.streams \o tasks[t].prompted
        seen == IF tasks[t].pc = "start_record"
                THEN SubSeq(chained, 1, tasks[t].idx - 1) ELSE chained
        Wanted(stream) == stream.kind \in session.source_type
        wanted == SelectSeq(seen, Wanted)
    IN  /\ Len(registered) = Len(wanted)
        /\ \A i \in DOMAIN registered :
             /\ registered[i].id = wanted[i].id
             /\ registered[i].source_type = wanted[i].kind
             /\ registered[i].cursor_mode = session.cursor_mode

\* The response carries restore data iff the session's persist mode, as stored
\* when start_cast returns, is not DoNot.
RespondsFresh(t) ==
    (tasks[t].pc = "start_respond" /\ tasks'[t].pc = "done")
      => (tasks'[t].result.resp.restore_data # None
            <=> sessions[tasks[t].tok].persist_mode # "DoNot")

\* C5: after the hand-off start_cast works with the session as it is stored
\* then (cursor mode, source types, stream list, persist mode), so a configure
\* that completed during the wait is what it sees.
C5_ConfigureVisibleAfterHandOff ==
    /\ [](\A t \in Tasks : tasks[t].pc \in AfterHandOff => RegisteredFresh(t))
    /\ [][\A t \in Tasks : RespondsFresh(t)]_vars

\* C5 witness: a start that asked the picker is past the hand-off and the
\* session's source types are no longer those it read before the hand-off.
C5_Witness ==
    \E t \in Tasks :
      /\ tasks[t].pc \in AfterHandOff
      /\ tasks[t].prompted # <<>>
      /\ tasks[t].source_type # sessions[tasks[t].tok].source_type

\* C6: a start that registered several streams is not blocked by a stream
\* whose transport-ready notification has not arrived while a later stream's
\* has: it can go on (and return the later stream).
C6_MissingNodeDoesNotBlock ==
    \A t \in Tasks :
      (/\ tasks[t].pc = "start_nodes"
       /\ LET streams == gnome[tasks[t].gs].streams
          IN  /\ streams[tasks[t].idx].signal = "subscribed"
              /\ \E j \in DOMAIN streams : j > tasks[t].idx /\ streams[j].signal = "queued")
        => ENABLED TaskStep(t)

\* C7: a configure with accepted restore data goes on when no change
\* notification has fired: has_changed does not make it wait for one.
C7_ConfigureReturnsWithoutNotification ==
    \A t \in Tasks :
      (tasks[t].pc \in {"sel_display_first", "sel_window_first"} /\ sent = 0)
        => ENABLED TaskStep(t)

\* C8: has_changed returns true once a notification was received and the
\* queued ones are consumed, with no further notification and no closing of
\* the source.
C8_HasChangedReturnsAfterDrain ==
    \A t \in Tasks :
      (\/ tasks[t].pc = "sel_display_drain" /\ dispQ = 0
       \/ tasks[t].pc = "sel_window_drain" /\ winQ = 0)
        => ENABLED TaskStep(t)

\* C9: a start on a session that has a live adapter is rejected with an error,
\* opens no compositor session and leaves the adapter in place.
C9_RestartRejected ==
    \A t \in Tasks :
      (tasks[t].op = "start" /\ tasks[t].live # None)
        => /\ \A g \in DOMAIN gnome : gnome[g].task # t
           /\ tasks[t].pc = "done" => tasks[t].result.kind = "Err"
           /\ tasks[t].tok \in DOMAIN sessions
                => sessions[tasks[t].tok].gnome_session = tasks[t].live

\* C10: a session token has at most one compositor session that was started
\* for it and has not been stopped.
C10_OneStartedSessionPerToken ==
    \A tok \in Tokens :
      Cardinality({g \in DOMAIN gnome :
                     gnome[g].token = tok /\ gnome[g].state = "started"}) <= 1

\* C11: a close on a token that has no session returns the unknown-session
\* error and leaves the registry as it was.
C11_CloseUnknownReturnsError ==
    [][\A t \in Tasks :
         (/\ tasks[t].pc = "close_lock" /\ tasks'[t].pc # "close_lock"
          /\ tasks[t].tok \notin DOMAIN sessions)
           => /\ tasks'[t].result.kind = "Err"
              /\ sessions' = sessions]_vars

\* C12: a close on a known token removes the session; with a live adapter
\* the compositor stop is called once, on that adapter, and its failure is
\* the result of the close while the session stays removed; without one the
\* close succeeds and no compositor session is touched.
C12_CloseRemovesSession ==
    [][\A t \in Tasks :
         LET tok == tasks[t].tok
         IN  /\ (/\ tasks[t].pc = "close_lock" /\ tasks'[t].pc # "close_lock"
                 /\ tok \in DOMAIN sessions)
                  => /\ tok \notin DOMAIN sessions'
                     /\ gnome' = gnome
                     /\ IF sessions[tok].gnome_session # None
                        THEN /\ tasks'[t].pc = "close_stop"
                             /\ Some(tasks'[t].gs) = sessions[tok].gnome_session
                        ELSE /\ tasks'[t].pc = "done"
                             /\ tasks'[t].result = Ok("Unit")
             /\ (tasks[t].pc = "close_stop" /\ tasks'[t].pc # "close_stop")
                  => /\ tasks'[t].pc = "done"
                     /\ tok \notin DOMAIN sessions'
                     /\ \A g \in DOMAIN gnome : g # tasks[t].gs => gnome'[g] = gnome[g]
                     /\ IF gnome'[tasks[t].gs].state = "stopped"
                        THEN tasks'[t].result = Ok("Unit")
                        ELSE /\ tasks'[t].result.kind = "Err"
                             /\ gnome' = gnome
             /\ tasks[t].pc = "close_stop" => tok \notin DOMAIN sessions]_vars

\* C12 witness: a close whose stop call failed has returned the error, and the
\* session is not in the registry.
C12_Witness ==
    \E t \in Tasks :
      /\ tasks[t].op = "close" /\ tasks[t].pc = "done"
      /\ tasks[t].result.kind = "Err"
      /\ tasks[t].gs # 0 /\ gnome[tasks[t].gs].state = "started"
      /\ tasks[t].tok \notin DOMAIN sessions

\* C13: a configure or a start on a token that has no session returns
\* InvalidArgument and changes nothing: no session, no compositor session, no
\* request to the picker.
C13_UnknownTokenRejected ==
    [][\A t \in Tasks :
         (/\ tasks[t].pc \in {"sel_lock", "start_lock"}
          /\ tasks'[t].pc # tasks[t].pc
          /\ tasks[t].tok \notin DOMAIN sessions)
           => /\ tasks'[t].pc = "done"
              /\ tasks'[t].result = Err("InvalidArgument")
              /\ tasks'[t].rx = "none"
              /\ tasks'[t].gs = 0
              /\ sessions' = sessions
              /\ gnome' = gnome]_vars

\* C13 witness: a configure and a start have both been rejected for a token
\* that has no session.
C13_Witness ==
    \E t, u \in Tasks :
      /\ tasks[t].op = "select" /\ tasks[u].op = "start"
      /\ tasks[t].pc = "done" /\ tasks[u].pc = "done"
      /\ tasks[t].result = Err("InvalidArgument")
      /\ tasks[u].result = Err("InvalidArgument")
      /\ sessions = <<>> /\ gnome = <<>>

\* C14: a configure changes multiple, cursor_mode, persist_mode and the
\* requested source types only when the options carry them (an empty set of
\* types standing for Monitor); every other field keeps its prior value.
C14_ConfigureIsPartialUpdate ==
    [][\A t \in Tasks :
         (/\ tasks[t].pc = "sel_lock" /\ tasks'[t].pc # "sel_lock"
          /\ tasks[t].tok \in DOMAIN sessions)
           => LET o == tasks[t].options
                  old == sessions[tasks[t].tok]
                  new == sessions'[tasks[t].tok]
              IN  /\ new.multiple = IF o.multiple = None THEN old.multiple ELSE o.multiple[1]
                  /\ new.cursor_mode =
                       IF o.cursor_mode = None THEN old.cursor_mode ELSE o.cursor_mode[1]
                  /\ new.persist_mode =
                       IF o.persist_mode = None THEN old.persist_mode ELSE o.persist_mode[1]
                  /\ new.source_type =
                       IF o.types = None THEN old.source_type
                       ELSE IF o.types[1] = {} THEN {"Monitor"} ELSE o.types[1]
                  /\ new.streams = old.streams
                  /\ new.gnome_session = old.gnome_session
                  /\ \A tok \in DOMAIN sessions \ {tasks[t].tok} :
                       sessions'[tok] = sessions[tok]]_vars

\* C14 witness: two configures with disjoint options (multiple, cursor mode and
\* persist mode; source types) have both left their effect on a session.
C14_Witness ==
    \E tok \in DOMAIN sessions :
      /\ sessions[tok].multiple /\ sessions[tok].cursor_mode = "Embedded"
      /\ sessions[tok].source_type = {"Window"}
      /\ sessions[tok].persist_mode = "Application"
      /\ \A t \in Tasks : tasks[t].pc \in {"idle", "done"}

\* C15: a session's pre-resolved stream list changes only when a
\* restore_streams of a configure on it returned at least one stream, and
\* then it becomes that list; a resolution to zero streams leaves it alone.
C15_LastGoodListWins ==
    [][\A tok \in DOMAIN sessions \cap DOMAIN sessions' :
         /\ sessions'[tok].streams # sessions[tok].streams
              => /\ sessions'[tok].streams # <<>>
                 /\ \E t \in Tasks :
                      /\ tasks[t].pc = "sel_resolve" /\ tasks[t].tok = tok
                      /\ tasks'[t].restored = Some(sessions'[tok].streams)
         /\ \A t \in Tasks :
              (/\ tasks[t].pc = "sel_resolve" /\ tasks[t].tok = tok
               /\ tasks'[t].restored = Some(<<>>))
                => sessions'[tok].streams = sessions[tok].streams]_vars

\* C15 witness: a configure whose restore data resolved to zero streams has
\* returned and the session still has its non-empty list.
C15_Witness ==
    \E t \in Tasks :
      /\ tasks[t].op = "select" /\ tasks[t].pc = "done"
      /\ tasks[t].restored = Some(<<>>)
      /\ tasks[t].tok \in DOMAIN sessions
      /\ sessions[tasks[t].tok].streams # <<>>

RECURSIVE OfTypes(_, _)
OfTypes(streams, types) ==
    IF streams = <<>> THEN <<>>
    ELSE (IF Head(streams).kind \in types THEN <<Head(streams)>> ELSE <<>>)
           \o OfTypes(Tail(streams), types)

C19_FailedStartKeepsSession ==
    /\ [](\A t \in Tasks :
            (/\ tasks[t].op = "start" /\ tasks[t].pc = "done"
             /\ tasks[t].result.kind = "Err" /\ tasks[t].gs # 0)
              => \A tok \in DOMAIN sessions :
                   sessions[tok].gnome_session # Some(tasks[t].gs))
    /\ [][\A t \in Tasks :
            (/\ tasks[t].pc \in {"start_record", "start_start"}
             /\ tasks'[t] # tasks[t]
             /\ gnome' = gnome)
              => /\ tasks'[t].pc = "done"
                 /\ tasks'[t].result = Err("ZbusError")
                 /\ sessions' = sessions]_vars

\* C19 witness: a start has returned the compositor's error after it had
\* registered a stream; its session has no adapter.
C19_Witness ==
    \E t \in Tasks :
      /\ tasks[t].op = "start" /\ tasks[t].pc = "done"
      /\ tasks[t].result = Err("ZbusError")
      /\ tasks[t].gs # 0 /\ gnome[tasks[t].gs].streams # <<>>
      /\ tasks[t].tok \in DOMAIN sessions
      /\ sessions[tasks[t].tok].gnome_session = None

\* The registered streams that have a node id, in order.
RECURSIVE WithNode(_)
WithNode(streams) ==
    IF streams = <<>> THEN <<>>
    ELSE (IF Head(streams).pipewire_node_id # None THEN <<Head(streams)>> ELSE <<>>)
           \o WithNode(Tail(streams))

\* C20: the response of start_cast lists the registered streams that got a
\* node id; it carries restore data iff the session's persist mode is not
\* DoNot, tagged ("Kagayaku", 1) with both reserved fields 0 and one entry per
\* listed stream, in order, with that stream's id and source kind.
C20_RestoreDataMatchesStreams ==
    [][\A t \in Tasks :
         (tasks[t].pc = "start_respond" /\ tasks'[t].pc = "done")
           => LET resp == tasks'[t].result.resp
                  rd == resp.restore_data
                  started == WithNode(gnome[tasks[t].gs].streams)
              IN  /\ tasks'[t].result.kind = "Ok"
                  /\ Len(resp.streams) = Len(started)
                  /\ \A i \in DOMAIN started :
                       /\ resp.streams[i].id = started[i].id
                       /\ resp.streams[i].source_type = started[i].source_type
                       /\ Some(resp.streams[i].node_id) = started[i].pipewire_node_id
                  /\ rd # None <=> sessions[tasks[t].tok].persist_mode # "DoNot"
                  /\ rd # None
                       => /\ rd[1][1] = "Kagayaku" /\ rd[1][2] = 1
                          /\ rd[1][3].r1 = 0 /\ rd[1][3].r2 = 0
                          /\ Len(rd[1][3].entries) = Len(resp.streams)
                          /\ \A i \in DOMAIN resp.streams :
                               /\ rd[1][3].entries[i][1] = resp.streams[i].id
                               /\ rd[1][3].entries[i][2] =
                                    SourceTypeBits(resp.streams[i].source_type)]_vars

\* C20 witness: a start has returned restore data and a stream list, and a
\* stream it had registered, which got no node id, is in neither.
C20_Witness ==
    \E t \in Tasks :
      /\ tasks[t].op = "start" /\ tasks[t].pc = "done" /\ tasks[t].result.kind = "Ok"
      /\ tasks[t].result.resp.restore_data # None
      /\ Len(tasks[t].result.resp.streams) >= 1
      /\ Len(tasks[t].result.resp.restore_data[1][3].entries)
            = Len(tasks[t].result.resp.streams)
      /\ Len(gnome[tasks[t].gs].streams) > Len(tasks[t].result.resp.streams)

\* The locks a task holds.
Holds(t) ==
    (IF sessLock = t THEN {"sessions"} ELSE {})
      \cup (IF dispLock = t THEN {"display"} ELSE {})
      \cup (IF winLock = t THEN {"windows"} ELSE {})

\* C28: the three locks are taken in the order session table, display cache,
\* window cache: a cache lock is held only by the holder of the session-table
\* lock, the window lock only by the holder of the display lock, each lock is
\* taken by a task that holds exactly the locks before it, and a task waiting
\* for the session-table lock holds nothing.
C28_LockOrder ==
    /\ [](/\ dispLock # 0 => sessLock = dispLock
          /\ winLock # 0 => dispLock = winLock
          /\ \A t \in Tasks : tasks[t].pc \in LockWaits => Holds(t) = {})
    /\ [][/\ (sessLock' # sessLock /\ sessLock' # 0) => Holds(sessLock') = {}
          /\ (dispLock' # dispLock /\ dispLock' # 0) => Holds(dispLock') = {"sessions"}
          /\ (winLock' # winLock /\ winLock' # 0)
               => Holds(winLock') = {"sessions", "display"}]_vars

\* C28 witness: a task holds the three locks while another waits for the
\* session-table lock.
C28_Witness ==
    \E t, u \in Tasks :
      /\ Holds(t) = {"sessions", "display", "windows"}
      /\ u # t /\ tasks[u].pc \in LockWaits

\* C29: every registered stream has its PipeWireStreamAdded subscription from
\* the moment it is registered, so before start is called; a notification
\* that arrived is kept until start takes it, and the node id it carries is
\* stored in the stream it was emitted for.
C29_NodeIdReachesItsStream ==
    /\ [](\A g \in DOMAIN gnome : \A i \in DOMAIN gnome[g].streams :
            LET stream == gnome[g].streams[i]
            IN  /\ stream.signal \in {"subscribed", "queued", "taken"}
                /\ gnome[g].state = "created" => stream.signal = "subscribed"
                /\ stream.pipewire_node_id # None
                     => /\ stream.pipewire_node_id = Some(NodeId(g, i))
                        /\ stream.signal = "taken")
    /\ [][\A g \in DOMAIN gnome : \A i \in DOMAIN gnome[g].streams :
            gnome[g].streams[i].signal = "queued"
              => \/ gnome'[g].streams[i] = gnome[g].streams[i]
                 \/ /\ gnome'[g].streams[i].signal = "taken"
                    /\ gnome'[g].streams[i].pipewire_node_id = Some(NodeId(g, i))]_vars

\* C29 witness: start_cast has returned two streams, each with the node id of
\* its own notification.
C29_Witness ==
    \E t \in Tasks :
      /\ tasks[t].op = "start" /\ tasks[t].pc = "done" /\ tasks[t].result.kind = "Ok"
      /\ Len(tasks[t].result.resp.streams) = 2
      /\ \A i \in 1..2 : tasks[t].result.resp.streams[i].node_id = NodeId(tasks[t].gs, i)

\* C30: for a session whose multiple flag is false, start_cast registers at
\* most one stream with the compositor.
C30_SingleStreamUnlessMultiple ==
    \A t \in Tasks :
      (tasks[t].pc \in AfterHandOff /\ ~sessions[tasks[t].tok].multiple)
        => Len(gnome[tasks[t].gs].streams) <= 1

\* The step in which restore_streams' loop runs and select_sources returns.
Resolves(t) == tasks[t].pc = "sel_resolve" /\ tasks'[t].pc = "done"

\* An entry of a restore array that is an (id, kind, value) of a monitor with a
\* string, or of a window with a pair of strings.
MonitorEntry(e) == Len(e) = 3 /\ e[2] = 1 /\ e[3].t = "str"
WindowEntry(e) == Len(e) = 3 /\ e[2] = 2 /\ e[3].t = "pair"

\* C21: restore data of another provider or version restores nothing and the
\* configure succeeds; of an accepted array exactly the monitor and window
\* entries that are well formed and match the caches are restored, with their
\* ids, whatever the other entries are, and the configure succeeds.
C21_RestoreIsBestEffort ==
    [][\A t \in Tasks :
         LET o == tasks[t].options
             tok == tasks[t].tok
         IN  /\ (/\ tasks[t].pc = "sel_lock" /\ tasks'[t].pc # "sel_lock"
                 /\ tok \in DOMAIN sessions
                 /\ o.restore_data # None
                 /\ o.restore_data[1][1] # "Kagayaku" \/ o.restore_data[1][2] # 1)
                  => /\ tasks'[t].pc = "done"
                     /\ tasks'[t].result = Ok("SelectSourcesResponse")
                     /\ tasks'[t].restored = None
                     /\ sessions'[tok].streams = sessions[tok].streams
             /\ Resolves(t)
                  => LET entries == o.restore_data[1][3].entries
                         restored == tasks'[t].restored[1]
                     IN  /\ tasks'[t].result = Ok("SelectSourcesResponse")
                         /\ \A i \in DOMAIN restored :
                              \E j \in DOMAIN entries :
                                /\ MonitorEntry(entries[j]) \/ WindowEntry(entries[j])
                                /\ entries[j][1] = restored[i].id
                                /\ entries[j][2] = SourceTypeBits(restored[i].kind)
                         /\ \A j \in DOMAIN entries :
                              (\/ /\ MonitorEntry(entries[j])
                                  /\ \E c \in DOMAIN monitors :
                                       match_string(monitors[c]) = entries[j][3].s
                               \/ /\ WindowEntry(entries[j])
                                  /\ \E w \in DOMAIN windows :
                                       /\ windows[w].app_id = entries[j][3].a
                                       /\ windows[w].title = entries[j][3].b)
                                => \E i \in DOMAIN restored :
                                     /\ restored[i].id = entries[j][1]
                                     /\ SourceTypeBits(restored[i].kind) = entries[j][2]]_vars

\* C21 witness: a configure has restored the monitor and the window entry of
\* an array that also holds a malformed, a virtual, an unknown-kind and a
\* mistyped entry.
C21_Witness ==
    \E t \in Tasks :
      /\ tasks[t].op = "select" /\ tasks[t].pc = "done"
      /\ tasks[t].result.kind = "Ok"
      /\ tasks[t].restored # None
      /\ Len(tasks[t].restored[1]) = 2
      /\ tasks[t].restored[1][1].id = 4 /\ tasks[t].restored[1][2].id = 5
      /\ sessions[tasks[t].tok].streams = tasks[t].restored[1]

\* C22: a monitor entry made of the match_string of a monitor of the cache
\* resolves to that monitor: the restored stream has its connector.
C22_MonitorRoundTrip ==
    [][\A t \in Tasks :
         Resolves(t)
           => \A i \in DOMAIN tasks'[t].restored[1] :
                LET stream == tasks'[t].restored[1][i]
                IN  stream.kind = "Monitor"
                      => \A c \in DOMAIN monitors :
                           match_string(monitors[c]) = stream.match_string
                             => stream.connector = c]_vars

\* C23: match_string is the connector when vendor, product and serial are all
\* "unknown" and vendor:product:serial otherwise, for every monitor of the
\* cache and in every restored monitor stream.
C23_MatchStringAllUnknown ==
    LET Expected(m) ==
          IF <<m.vendor, m.product, m.serial>> = <<"unknown", "unknown", "unknown">>
          THEN m.connector
          ELSE m.vendor \o ":" \o m.product \o ":" \o m.serial
    IN  /\ \A c \in DOMAIN monitors : match_string(monitors[c]) = Expected(monitors[c])
        /\ \A tok \in DOMAIN sessions : \A i \in DOMAIN sessions[tok].streams :
             LET stream == sessions[tok].streams[i]
             IN  stream.kind = "Monitor"
                   => stream.match_string = Expected(monitors[stream.connector])

\* C23 witness: the cache holds a monitor with every field unknown, one with
\* some unknown and one with none, and a monitor stream has been restored.
C23_Witness ==
    /\ {"HDMI-1", "DP-1", "DP-2"} \subseteq DOMAIN monitors
    /\ \E tok \in DOMAIN sessions : \E i \in DOMAIN sessions[tok].streams :
         sessions[tok].streams[i].kind = "Monitor"

\* C24: match_string is vendor:product:serial only when none of the three is
\* "unknown"; with at least one unknown it is the connector.
C24_MatchStringAnyUnknown ==
    \A c \in DOMAIN monitors :
      LET m == monitors[c]
      IN  match_string(m) =
            IF "unknown" \in {m.vendor, m.product, m.serial}
            THEN m.connector
            ELSE m.vendor \o ":" \o m.product \o ":" \o m.serial

\* C25: a restored window stream is a cached window whose app_id and title
\* are both the entry's; a window entry is restored iff such a window exists.
C25_WindowMatchesAppAndTitle ==
    [][\A t \in Tasks :
         Resolves(t)
           => LET entries == tasks[t].options.restore_data[1][3].entries
                  restored == tasks'[t].restored[1]
              IN  /\ \A i \in DOMAIN restored :
                       restored[i].kind = "Window"
                         => /\ restored[i].window_id \in DOMAIN windows
                            /\ windows[restored[i].window_id].app_id = restored[i].app_id
                            /\ windows[restored[i].window_id].title = restored[i].title
                            /\ \E j \in DOMAIN entries :
                                 /\ WindowEntry(entries[j])
                                 /\ entries[j][1] = restored[i].id
                                 /\ entries[j][3].a = restored[i].app_id
                                 /\ entries[j][3].b = restored[i].title
                  /\ \A j \in DOMAIN entries :
                       WindowEntry(entries[j])
                         => ((\E i \in DOMAIN restored :
                                restored[i].kind = "Window" /\ restored[i].id = entries[j][1])
                              <=> (\E w \in DOMAIN windows :
                                     /\ windows[w].app_id = entries[j][3].a
                                     /\ windows[w].title = entries[j][3].b))]_vars

\* C25 witness: with windows 42 (org.foo, Inbox) and 99 (org.foo, Drafts)
\* cached, the entry (org.foo, Drafts) has been restored as window 99.
C25_Witness ==
    \E t \in Tasks :
      /\ tasks[t].pc = "done" /\ tasks[t].restored # None
      /\ DOMAIN windows = {42, 99}
      /\ windows[42] = WinInbox /\ windows[99] = WinDrafts
      /\ \E i \in DOMAIN tasks[t].restored[1] :
           /\ tasks[t].restored[1][i].kind = "Window"
           /\ tasks[t].restored[1][i].title = "Drafts"
           /\ tasks[t].restored[1][i].window_id = 99

\* C26: a refresh of the display or the window cache that fails returns an
\* error to its caller and leaves the cache as it was.
C26_RefreshFailureIsAnError ==
    [][\A t \in Tasks :
         (/\ tasks[t].pc \in {"new_display", "new_window",
                               "sel_display_refresh", "sel_window_refresh"}
          /\ tasks'[t] # tasks[t])
           => /\ tasks'[t].result.kind # "Panic"
              /\ tasks'[t].result.kind = "Err"
                   => monitors' = monitors /\ windows' = windows]_vars

\* -------------------------------------------------------------- the picker
\* ui_main receives PopupData requests and runs one picker App per request
\* on a thread of its own; the App's update handles the user's messages and
\* answers on the request's backend_tx.  A thread is not joined: ui_main
\* returns to recv at once, so pickers can be open side by side.
Popups == 1..MaxPopups

\* State::default
DefaultState ==
    [include_monitor |-> TRUE, include_window |-> TRUE, include_virtual |-> TRUE,
     selected_monitors |-> {}, selected_windows |-> {}, remember_choice |-> TRUE]

selected_count(state) ==
    Cardinality(state.selected_monitors) + Cardinality(state.selected_windows)

\* The requests the backend sends (session_token and app_id only label the
\* thread and the prompt).
PopupInputs ==
    { [multiple |-> FALSE, source_type |-> {"Monitor", "Window"},
       persist_mode |-> "Application",
       monitors |-> MonitorMap({MonDell}), windows |-> (99 :> WinDrafts)],
      [multiple |-> TRUE, source_type |-> {"Monitor", "Window", "Virtual"},
       persist_mode |-> "DoNot",
       monitors |-> MonitorMap({MonDell}), windows |-> (99 :> WinDrafts)] }

\* ToBackendMessage
CancelMessage == [kind |-> "Cancel"]
SuccessMessage(remember_choice, choices) ==
    [kind |-> "Success", remember |-> remember_choice, choices |-> choices]

\* The App the thread builds from the request.
NewApp(d, run) ==
    [multiple |-> d.multiple, source_type |-> d.source_type,
     persist_mode |-> d.persist_mode, monitors |-> d.monitors, windows |-> d.windows,
     state |-> DefaultState, run |-> run]

\* The sending side of the request channel (ui_tx.send in start_cast).
SendPopupData ==
    /\ ui_main = "recv"
    /\ Len(ui_rx) + Len(apps) < MaxPopups
    /\ \E d \in PopupInputs : ui_rx' = Append(ui_rx, d)
    /\ UNCHANGED <<ui_main, apps, backend_tx>>
    /\ UNCHANGED backendVars

\* ui_main: recv_blocking returns a request and the thread is spawned; when
\* the spawn fails ui_main itself answers Cancel.
UiMainRecv ==
    /\ ui_main = "recv"
    /\ ui_rx # <<>>
    /\ \E spawn \in {"ok", "fail"} :
         IF spawn = "ok"
         THEN /\ apps' = Append(apps, NewApp(Head(ui_rx), "running"))
              /\ backend_tx' = Append(backend_tx, <<>>)
         ELSE /\ apps' = Append(apps, NewApp(Head(ui_rx), "nospawn"))
              /\ backend_tx' = Append(backend_tx, <<CancelMessage>>)
    /\ ui_rx' = Tail(ui_rx)
    /\ UNCHANGED ui_main
    /\ UNCHANGED backendVars

\* ui_main: recv_blocking fails (the channel is empty and closed), the loop
\* breaks.
UiMainBreak ==
    /\ ui_main = "recv"
    /\ ui_rx = <<>>
    /\ ui_main' = "stopped"
    /\ UNCHANGED <<ui_rx, apps, backend_tx>>
    /\ UNCHANGED backendVars

\* An insert that is never refused.
MayInsertAlways(app) == TRUE

\* The test of ToggleChoice before an insert.
MayInsert(app) == app.multiple \/ selected_count(app.state) < 1

\* App::update, ToggleChoice(c, b): sent by the button of a choice the view
\* shows (its kind is requested and included), with b = !selected.
ToggleChoice(id) ==
    /\ id \in DOMAIN apps
    /\ apps[id].run = "running"
    /\ LET app == apps[id]
           state == app.state
       IN  \/ \E conn \in DOMAIN app.monitors :
                /\ "Monitor" \in app.source_type /\ state.include_monitor
                /\ LET b == conn \notin state.selected_monitors
                   IN  apps' = [apps EXCEPT ![id].state.selected_monitors =
                                  IF b
                                  THEN IF MayInsert(app) THEN @ \cup {conn} ELSE @
                                  ELSE @ \ {conn}]
           \/ \E wid \in DOMAIN app.windows :
                /\ "Window" \in app.source_type /\ state.include_window
                /\ LET b == wid \notin state.selected_windows
                   IN  apps' = [apps EXCEPT ![id].state.selected_windows =
                                  IF b
                                  THEN IF MayInsert(app) THEN @ \cup {wid} ELSE @
                                  ELSE @ \ {wid}]
    /\ UNCHANGED <<ui_rx, ui_main, backend_tx>>
    /\ UNCHANGED backendVars

\* App::update, ToggleInclude(t, b): sent by the check box of a requested
\* kind, with b = !state.
ToggleInclude(id) ==
    /\ id \in DOMAIN apps
    /\ apps[id].run = "running"
    /\ \E t \in apps[id].source_type :
         apps' = CASE t = "Monitor" -> [apps EXCEPT ![id].state.include_monitor = ~@]
                   [] t = "Window" -> [apps EXCEPT ![id].state.include_window = ~@]
                   [] t = "Virtual" -> [apps EXCEPT ![id].state.include_virtual = ~@]
    /\ UNCHANGED <<ui_rx, ui_main, backend_tx>>
    /\ UNCHANGED backendVars

\* App::update, ToggleRemember(b): the check box exists unless persist_mode
\* is DoNot.
ToggleRemember(id) ==
    /\ id \in DOMAIN apps
    /\ apps[id].run = "running"
    /\ apps[id].persist_mode # "DoNot"
    /\ apps' = [apps EXCEPT ![id].state.remember_choice = ~@]
    /\ UNCHANGED <<ui_rx, ui_main, backend_tx>>
    /\ UNCHANGED backendVars

\* App::update, Cancel: the answer is sent and the application exits.
Cancel(id) ==
    /\ id \in DOMAIN apps
    /\ apps[id].run = "running"
    /\ backend_tx' = [backend_tx EXCEPT ![id] = Append(@, CancelMessage)]
    /\ apps' = [apps EXCEPT ![id].run = "exited"]
    /\ UNCHANGED <<ui_rx, ui_main>>
    /\ UNCHANGED backendVars

\* The answer Share sends: the list built from the selection is left aside
\* and a new empty Vec is sent.
ShareAnswer(app) == SuccessMessage(app.state.remember_choice, <<>>)

\* App::update, Share.
Share(id) ==
    /\ id \in DOMAIN apps
    /\ apps[id].run = "running"
    /\ backend_tx' = [backend_tx EXCEPT ![id] = Append(@, ShareAnswer(apps[id]))]
    /\ apps' = [apps EXCEPT ![id].run = "exited"]
    /\ UNCHANGED <<ui_rx, ui_main>>
    /\ UNCHANGED backendVars

\* A thread that ends without the trailing send.
RunReturnsSilent(id) ==
    /\ id \in DOMAIN apps
    /\ apps[id].run \in {"running", "exited"}
    /\ apps' = [apps EXCEPT ![id].run = "ended"]
    /\ UNCHANGED <<ui_rx, ui_main, backend_tx>>
    /\ UNCHANGED backendVars

\* The thread after application(..).run() returned (after exit(), after the
\* window was closed, or with an error): it sends Cancel and ends.
RunReturns(id) ==
    /\ id \in DOMAIN apps
    /\ apps[id].run \in {"running", "exited"}
    /\ backend_tx' = [backend_tx EXCEPT ![id] = Append(@, CancelMessage)]
    /\ apps' = [apps EXCEPT ![id].run = "ended"]
    /\ UNCHANGED <<ui_rx, ui_main>>
    /\ UNCHANGED backendVars

UiNext ==
    \/ SendPopupData
    \/ UiMainRecv
    \/ UiMainBreak
    \/ \E id \in Popups :
         \/ ToggleChoice(id)
         \/ ToggleInclude(id)
         \/ ToggleRemember(id)
         \/ Cancel(id)
         \/ Share(id)
         \/ RunReturns(id)

UiSpec == Init /\ [][UiNext]_vars

\* The choices of a picker's current selection.
SelectedChoices(app) ==
    {[kind |-> "Monitor", connector |-> c, match_string |-> match_string(app.monitors[c])] :
        c \in app.state.selected_monitors}
    \cup {[kind |-> "Window", window_id |-> w, app_id |-> app.windows[w].app_id,
           title |-> app.windows[w].title] : w \in app.state.selected_windows}

\* C27: the Success answer Share sends carries the remember-choice flag and
\* exactly one choice per source selected at that moment.
C27_ShareSendsSelection ==
    [][\A id \in DOMAIN apps :
         (/\ apps[id].run = "running"
          /\ Len(backend_tx'[id]) = Len(backend_tx[id]) + 1
          /\ backend_tx'[id][Len(backend_tx'[id])].kind = "Success")
           => LET answer == backend_tx'[id][Len(backend_tx'[id])]
              IN  /\ answer.remember = apps[id].state.remember_choice
                  /\ Len(answer.choices) = selected_count(apps[id].state)
                  /\ {answer.choices[k] : k \in DOMAIN answer.choices}
                       = SelectedChoices(apps[id])]_vars

\* The sources selected in a picker, monitors and windows together.
Selection(app) ==
    {<<"Monitor", c>> : c \in app.state.selected_monitors}
    \cup {<<"Window", w>> : w \in app.state.selected_windows}

\* C31: in a picker whose multiple is false at most one source is selected
\* in every state; a step never adds a source to a non-empty selection (the
\* toggle that would is ignored), and every selected source the view shows
\* can be deselected by its toggle.
C31_AtMostOneUnlessMultiple ==
    /\ [](\A id \in DOMAIN apps :
            /\ ~apps[id].multiple => selected_count(apps[id].state) <= 1
            /\ apps[id].run = "running"
                 => /\ \A c \in apps[id].state.selected_monitors :
                         ("Monitor" \in apps[id].source_type /\ apps[id].state.include_monitor)
                           => ENABLED (/\ ToggleChoice(id)
                                       /\ apps'[id].state.selected_monitors
                                            = apps[id].state.selected_monitors \ {c}
                                       /\ apps'[id].state.selected_windows
                                            = apps[id].state.selected_windows)
                    /\ \A w \in apps[id].state.selected_windows :
                         ("Window" \in apps[id].source_type /\ apps[id].state.include_window)
                           => ENABLED (/\ ToggleChoice(id)
                                       /\ apps'[id].state.selected_windows
                                            = apps[id].state.selected_windows \ {w}
                                       /\ apps'[id].state.selected_monitors
                                            = apps[id].state.selected_monitors))
    /\ [][\A id \in DOMAIN apps :
            (~apps[id].multiple /\ Selection(apps[id]) # {})
              => Selection(apps'[id]) \subseteq Selection(apps[id])]_vars

\* C31 witness: a running picker with multiple false has one source selected
\* while the view still offers a second one of each kind's list.
C31_Witness ==
    \E id \in DOMAIN apps :
      /\ apps[id].run = "running"
      /\ ~apps[id].multiple
      /\ apps[id].state.selected_monitors = {"HDMI-1"}
      /\ apps[id].state.selected_windows = {}
      /\ apps[id].state.include_window
      /\ "Window" \in apps[id].source_type
      /\ 99 \in DOMAIN apps[id].windows

\* The picker with every open window eventually left: by Share, by Cancel,
\* or by run() returning (the window was closed, or the application failed);
\* after exit() the run loop returns and the thread goes on to its last send.
UiFairSpec ==
    /\ Init /\ [][UiNext]_vars
    /\ \A id \in Popups : WF_vars(Cancel(id) \/ Share(id) \/ RunReturns(id))

Answered(id) == id \in DOMAIN backend_tx /\ backend_tx[id] # <<>>

====
